---- MODULE Spec2Model ----
(***************************************************************************)
(* A model of monkeyplug (src/src/monkeyplug/monkeyplug.py and the         *)
(* AudioFilterBuilder of src/src/monkeyplug/utilities.py): the word        *)
(* normaliser, the profanity dictionary loader, transcript classification, *)
(* the mute-list synthesis and the EncodeCleanAudio pipeline with its tag  *)
(* short-circuit and transcript-source policy.                             *)
(*                                                                         *)
(* Text is a sequence of one-character strings.  A time in seconds is an   *)
(* integer number of ticks, TicksPerMs to the millisecond; a time written  *)
(* with three decimals is an integer number of milliseconds.               *)
(* Plugger.swearsMap and Plugger.wordList are class         *)
(* attributes that the methods mutate in place, so they are one variable   *)
(* each, shared by every plugger of the process.  One plugger is live at a *)
(* time: the process constructs a plugger, uses it, and may construct the  *)
(* next one.                                                               *)
(***************************************************************************)
EXTENDS Integers, Sequences, FiniteSets, TLC

VARIABLES
    swearsMap,        \* Plugger.swearsMap, the class-level dict
    wordList,         \* Plugger.wordList, the class-level list
    self,             \* the live plugger's instance attributes
    audio,            \* the audio files on disk
    transcriptFiles,  \* the transcript JSON files on disk
    events,           \* external effects of the last operation, in order
    lastOp,           \* the last operation and how it ended
    arg,              \* input of the pure-function specifications
    res               \* their results

vars == <<swearsMap, wordList, self, audio, transcriptFiles, events, lastOp,
          arg, res>>

(***************************************************************************)
(* Bounds                                                                  *)
(***************************************************************************)
MaxWords == 2
MaxLen == 3

(***************************************************************************)
(* Characters                                                              *)
(***************************************************************************)
UpperToLower ==
    ("A" :> "a") @@ ("B" :> "b") @@ ("C" :> "c") @@ ("D" :> "d") @@ ("E" :> "e") @@
    ("F" :> "f") @@ ("G" :> "g") @@ ("H" :> "h") @@ ("I" :> "i") @@ ("J" :> "j") @@
    ("K" :> "k") @@ ("L" :> "l") @@ ("M" :> "m") @@ ("N" :> "n") @@ ("O" :> "o") @@
    ("P" :> "p") @@ ("Q" :> "q") @@ ("R" :> "r") @@ ("S" :> "s") @@ ("T" :> "t") @@
    ("U" :> "u") @@ ("V" :> "v") @@ ("W" :> "w") @@ ("X" :> "x") @@ ("Y" :> "y") @@
    ("Z" :> "z")

LowerToUpper ==
    [c \in {UpperToLower[u] : u \in DOMAIN UpperToLower} |->
        CHOOSE u \in DOMAIN UpperToLower : UpperToLower[u] = c]

Whitespace == {" ", "\t", "\n", "\r", "\f"}

\* string.punctuation; the grave accent, which a TLA+ string cannot hold, is
\* written "grave"
Punctuation ==
    {"!", "\"", "#", "$", "%", "&", "'", "(", ")", "*", "+", ",", "-", ".", "/", ":",
     ";", "<", "=", ">", "?", "@", "[", "\\", "]", "^", "_", "grave", "{", "|", "}", "~"}

(***************************************************************************)
(* scrubword: str(value).lower().strip().translate(<delete punctuation>)   *)
(***************************************************************************)
lower(s) ==
    [i \in 1..Len(s) |-> IF s[i] \in DOMAIN UpperToLower THEN UpperToLower[s[i]] ELSE s[i]]

RECURSIVE lstrip(_)
lstrip(s) ==
    IF Len(s) > 0 /\ s[1] \in Whitespace THEN lstrip(SubSeq(s, 2, Len(s))) ELSE s

RECURSIVE rstrip(_)
rstrip(s) ==
    IF Len(s) > 0 /\ s[Len(s)] \in Whitespace THEN rstrip(SubSeq(s, 1, Len(s) - 1)) ELSE s

strip(s) == rstrip(lstrip(s))

IsPunctuation(c) == c \in Punctuation

translate(s) == SelectSeq(s, LAMBDA c : ~IsPunctuation(c))

scrubword(value) == translate(strip(lower(value)))

(***************************************************************************)
(* str.split(sep) and the iteration of a text file by lines                *)
(***************************************************************************)
RECURSIVE split(_, _)
split(s, sep) ==
    IF \E i \in 1..Len(s) : s[i] = sep
    THEN LET i == CHOOSE k \in 1..Len(s) : s[k] = sep /\ \A j \in 1..(k - 1) : s[j] # sep
         IN  <<SubSeq(s, 1, i - 1)>> \o split(SubSeq(s, i + 1, Len(s)), sep)
    ELSE <<s>>

\* [line.rstrip("\n") for line in f]: the text after the last newline is a line
\* only when it is not empty
FileLines(content) ==
    LET parts == split(content, "\n")
    IN  IF parts[Len(parts)] = <<>> THEN SubSeq(parts, 1, Len(parts) - 1) ELSE parts

(***************************************************************************)
(* The profanity dictionary                                                *)
(***************************************************************************)
Mask == <<"*", "*", "*", "*", "*">>

EmptyMap == [k \in {} |-> Mask]

\* swearsMap[key] = value on a dict
DictSet(map, key, value) == (key :> value) @@ map

SwearKeyRaw(lineMap) == lineMap[1]

SwearKey(lineMap) == scrubword(lineMap[1])

SwearValueAlwaysMask(lineMap) == Mask

SwearValue(lineMap) == IF Len(lineMap) > 1 THEN lineMap[2] ELSE Mask

\* for line in lines: lineMap = line.split("|"); self.swearsMap[...] = ...
RECURSIVE LoadSwearsLines(_, _)
LoadSwearsLines(map, lines) ==
    IF lines = <<>>
    THEN map
    ELSE LET lineMap == split(Head(lines), "|")
         IN  LoadSwearsLines(DictSet(map, SwearKey(lineMap), SwearValue(lineMap)),
                             Tail(lines))

LoadSwearsFromText(map, content) == LoadSwearsLines(map, FileLines(content))

\* a flat JSON array of bare words: every entry maps to the mask
RECURSIVE LoadSwearsFromJson(_, _)
LoadSwearsFromJson(map, words) ==
    IF words = <<>>
    THEN map
    ELSE LoadSwearsFromJson(DictSet(map, scrubword(Head(words)), Mask), Tail(words))

\* a swears file: its format (by extension), its text, or its parsed JSON list
LoadSwearsFile(map, file) ==
    IF file.json
    THEN LoadSwearsFromJson(map, file.words)
    ELSE LoadSwearsFromText(map, file.content)

(***************************************************************************)
(* The files of the modelled runs                                          *)
(***************************************************************************)
NoPath == ""

damn == <<"d", "a", "m", "n">>
hell == <<"h", "e", "l", "l">>
heck == <<"h", "e", "c", "k">>
darn == <<"d", "a", "r", "n">>
hello == <<"h", "e", "l", "l", "o">>
NL == <<"\n">>
Bar == <<"|">>


SwearsFile(path) ==
    CASE path = "swears_a.txt" ->
            [exists |-> TRUE, json |-> FALSE, content |-> damn \o NL \o hell, words |-> <<>>]
      [] path = "swears_b.txt" ->
            [exists |-> TRUE, json |-> FALSE, content |-> heck \o Bar \o darn \o NL,
             words |-> <<>>]
      [] path = "swears.json" ->
            [exists |-> TRUE, json |-> TRUE, content |-> <<>>, words |-> <<damn, hell>>]
      [] OTHER ->
            [exists |-> FALSE, json |-> FALSE, content |-> <<>>, words |-> <<>>]

AudioPaths == {"in.mp3", "tagged.mp3", "corrupt.mp3", "out.mp3", "out2.mp3"}
OutputPath == "out.mp3"
SecondOutputPath == "out2.mp3"

\* MUTAGEN_METADATA_TAGS, MUTAGEN_METADATA_TAG_VALUE
MUTAGEN_METADATA_TAGS == <<"encodedby", "comment">>
MUTAGEN_METADATA_TAG_VALUE == "monkeyplug"

NoTags == [t \in {"encodedby", "comment"} |-> {}]
\* a file: easy, mutagen.File gives an object with tags; corrupt, mutagen.File
\* raises; bad, the tag fields whose lookup raises
NoAudio ==
    [exists |-> FALSE, data |-> "", clean |-> FALSE, tags |-> NoTags, easy |-> FALSE,
     corrupt |-> FALSE, bad |-> {}]

ExplicitPath == "explicit.json"
MissingTranscriptPath == "missing.json"
CachePath == "cache.json"
TranscriptPaths == {ExplicitPath, CachePath}

\* A time in seconds (a float of the program) is a whole number of ticks,
\* TicksPerMs ticks to the millisecond; the text of a time with three decimals
\* is the number of milliseconds it denotes.
TicksPerMs == 10

\* the time of ms milliseconds: ms / 1000.0, or float() of a three-decimal text
Ms(ms) == ms * TicksPerMs

Word(text, start, end, scrub) ==
    [word |-> text, start |-> start, end |-> end, scrub |-> scrub]

NoTranscript == [exists |-> FALSE, words |-> <<>>]

\* a transcript written by an earlier run: the scrub flags it stores are stale
ExplicitTranscript ==
    [exists |-> TRUE,
     words |-> <<Word(damn, Ms(0), Ms(500), FALSE), Word(hello, Ms(500), Ms(1000), TRUE)>>]

StaleCache == [exists |-> TRUE, words |-> <<Word(hello, Ms(0), Ms(1000), FALSE)>>]

\* what the recognizer may return: up to MaxWords words, back to back
\* what is said in the audio, as the recognizer spells it
Utterance ==
    <<<<" ", "D", "a", "m", "n", "!">>, hello, <<"H", "E", "C", "K">>, <<" ", "h", "e", "l", "l", ".">>>>

WordMs == 500

RecognizerOutputs == {SubSeq(Utterance, 1, n) : n \in 0..MaxWords}

RawWords(texts) ==
    [i \in 1..Len(texts) |->
        [word |-> texts[i], start |-> Ms((i - 1) * WordMs), end |-> Ms(i * WordMs)]]

(***************************************************************************)
(* Tags                                                                    *)
(***************************************************************************)
\* GetMonkeyplugTagged: the file exists, mutagen opens it, and one of the tag
\* fields holds the sentinel
NotTagged == [raised |-> FALSE, result |-> FALSE, examined |-> <<>>]

\* for tag in MUTAGEN_METADATA_TAGS, from the i-th on: a lookup that raises is
\* passed over, a tag that holds the value ends the loop
RECURSIVE ScanTags(_, _)
ScanTags(file, i) ==
    IF i > Len(MUTAGEN_METADATA_TAGS)
    THEN NotTagged
    ELSE LET tag == MUTAGEN_METADATA_TAGS[i]
             rest == ScanTags(file, i + 1)
         IN  IF tag \notin file.bad /\ MUTAGEN_METADATA_TAG_VALUE \in file.tags[tag]
             THEN [raised |-> FALSE, result |-> TRUE, examined |-> <<tag>>]
             ELSE [rest EXCEPT !.examined = <<tag>> \o @]

\* GetMonkeyplugTagged: its result, whether it raised, and the tag fields it
\* looked up; mutagen.File is called outside any try
GetMonkeyplugTagged(file) ==
    IF ~file.exists THEN NotTagged
    ELSE IF file.corrupt THEN [NotTagged EXCEPT !.raised = TRUE]
    ELSE IF ~file.easy THEN NotTagged
    ELSE ScanTags(file, 1)

\* the tag set but never stored in the file
TagNotStored(file, saved) == file

\* SetMonkeyplugTag: mut[tag] = value on the first tag field, then mut.save();
\* saved is whether the save succeeds
SetMonkeyplugTag(file, saved) ==
    IF file.exists /\ ~file.corrupt /\ file.easy /\ saved
    THEN [file EXCEPT !.tags[MUTAGEN_METADATA_TAGS[1]] = {MUTAGEN_METADATA_TAG_VALUE}]
    ELSE file

(***************************************************************************)
(* Classification and recognition                                          *)
(***************************************************************************)
\* scrubword(word) in self.swearsMap
IsScrub(text, map) == scrubword(text) \in DOMAIN map

KeepWordList(words) == words

\* self.wordList.clear()
ClearWordList(words) == <<>>

\* WhisperPlugger.RecognizeSpeech: the words of the segments, stripped, classified
WhisperWords(raw, map) ==
    [i \in 1..Len(raw) |->
        Word(strip(raw[i].word), raw[i].start, raw[i].end, IsScrub(strip(raw[i].word), map))]

\* VoskPlugger.RecognizeSpeech: the words of the results, classified
VoskWords(raw, map) ==
    [i \in 1..Len(raw) |->
        Word(raw[i].word, raw[i].start, raw[i].end, IsScrub(raw[i].word, map))]

\* RecognizeSpeech of plugger p on recognizer output raw; wavOk is whether
\* VoskPlugger.CreateIntermediateWAV succeeds
RecognizeSpeech(p, words, map, raw, wavOk) ==
    IF p.engine = "vosk"
    THEN IF wavOk
         THEN [ok |-> TRUE, wordList |-> ClearWordList(words) \o VoskWords(raw, map),
               events |-> <<"wav", "recognize">>]
         ELSE [ok |-> FALSE, wordList |-> words, events |-> <<"wav">>]
    ELSE [ok |-> TRUE, wordList |-> ClearWordList(words) \o WhisperWords(raw, map),
          events |-> <<"recognize">>]

LoadedScrubStored(word, map) == word.scrub

\* the scrub flag of a word read from a transcript file
LoadedScrub(word, map) == IsScrub(word.word, map)

\* LoadTranscriptFromFile: the words of the file, each classified anew
LoadedWords(file, map) ==
    [i \in 1..Len(file.words) |->
        Word(file.words[i].word, file.words[i].start, file.words[i].end,
             LoadedScrub(file.words[i], map))]

(***************************************************************************)
(* CreateCleanMuteList                                                     *)
(***************************************************************************)
mothaflippin == <<"m", "o", "t", "h", "a", "f", "l", "i", "p", "p", "i", "n">>

\* [word for word in self.wordList if word["scrub"] is True], then the dummy word
\* every word taken as flagged
EveryWordNaughty(words) ==
    IF Len(words) > 0
    THEN Append(words, Word(<<>>, words[Len(words)].end + Ms(1000),
                            words[Len(words)].end + Ms(2000), TRUE))
    ELSE words

\* the flagged words without the dummy word
FlaggedWordsOnly(words) == SelectSeq(words, LAMBDA w : w.scrub)

NaughtyWordList(words) ==
    LET naughty == SelectSeq(words, LAMBDA w : w.scrub)
    IN  IF Len(naughty) > 0
        THEN Append(naughty, Word(mothaflippin, naughty[Len(naughty)].end + Ms(1000),
                                  naughty[Len(naughty)].end + Ms(2000), TRUE))
        ELSE naughty

Format3Floor(x) == x \div TicksPerMs

\* format(x, ".3f"): the millisecond nearest to x (no time of the model lies
\* halfway between two milliseconds)
Format3(x) == (2 * x + TicksPerMs) \div (2 * TicksPerMs)

\* the three-decimal times t below 4.004 whose float product t * 1000 falls
\* short of the whole number: 1.001, 1.003 .. 1.023 and 2.002, 2.006 .. 2.046
ShortProducts == {1001 + 2 * i : i \in 0..11} \cup {2002 + 4 * i : i \in 0..11}

Abs(n) == IF n < 0 THEN -n ELSE n

TowardZero(n, d) == IF n < 0 THEN -((-n) \div d) ELSE n \div d

\* int(x * 1000): the float product, truncated toward zero
IntTimes1000(x) ==
    IF x % TicksPerMs = 0 /\ Abs(x \div TicksPerMs) \in ShortProducts
    THEN TowardZero(x, TicksPerMs) - (IF x < 0 THEN -1 ELSE 1)
    ELSE TowardZero(x, TicksPerMs)

wordStart(p, w) == Format3(w.start - p.padSecPre)
wordEnd(p, w) == Format3(w.end + p.padSecPost)
wordDuration(p, w) == Format3(Ms(wordEnd(p, w)) - Ms(wordStart(p, w)))
wordPeekStart(p, peek) == Format3(peek.start - p.padSecPre)

Afade(type, from, to, st) == [f |-> "afade", t |-> type, from |-> from, to |-> to, st |-> st]
Volume(from, to) == [f |-> "volume", t |-> "", from |-> from, to |-> to, st |-> 0]

RECURSIVE Flatten(_)
Flatten(ss) == IF ss = <<>> THEN <<>> ELSE Head(ss) \o Flatten(Tail(ss))

\* the pairs of pairwise(self.naughtyWordList)
PairIndexes(naughty) == 1..(Len(naughty) - 1)

\* the entries that one pass over the naughty words appends to the mute list
MuteEntriesOf(p, naughty) ==
    Flatten([i \in PairIndexes(naughty) |->
        IF p.beep
        THEN <<Volume(wordStart(p, naughty[i]), wordEnd(p, naughty[i]))>>
        ELSE <<Afade("out", wordStart(p, naughty[i]), wordEnd(p, naughty[i]),
                     wordStart(p, naughty[i])),
               Afade("in", wordEnd(p, naughty[i]), wordPeekStart(p, naughty[i + 1]),
                     wordEnd(p, naughty[i]))>>])

\* the mute list appended to without being emptied first
MuteTimeListKept(p, naughty) == p.muteTimeList \o MuteEntriesOf(p, naughty)

\* self.muteTimeList = [] and then the appends of the pass
MuteTimeList(p, naughty) == MuteEntriesOf(p, naughty)

SineTimeList(p, naughty) ==
    IF p.beep
    THEN [i \in PairIndexes(naughty) |->
            [f |-> "sine", hz |-> p.beepHertz, duration |-> wordDuration(p, naughty[i])]]
    ELSE <<>>

BeepDelayList(p, naughty) ==
    IF p.beep
    THEN [i \in PairIndexes(naughty) |->
            [f |-> "atrim", duration |-> wordDuration(p, naughty[i]),
             adelay |-> <<IntTimes1000(Ms(wordStart(p, naughty[i]))),
                          IntTimes1000(Ms(wordStart(p, naughty[i])))>>]]
    ELSE <<>>

WithMuteLists(p, words) ==
    LET naughty == NaughtyWordList(words)
    IN  [p EXCEPT !.naughtyWordList = naughty,
                  !.muteTimeList = MuteTimeList(p, naughty),
                  !.sineTimeList = SineTimeList(p, naughty),
                  !.beepDelayList = BeepDelayList(p, naughty)]

(***************************************************************************)
(* The plugger                                                             *)
(***************************************************************************)
BEEP_HERTZ_DEFAULT == 1000

\* the keys of AUDIO_DEFAULT_PARAMS_BY_FORMAT
AUDIO_DEFAULT_PARAMS_BY_FORMAT == {"flac", "m4a", "aac", "mp3", "ogg", "opus", "ac3"}

NoPlugger ==
    [alive |-> FALSE, engine |-> "", inputFileSpec |-> NoPath, outputFileSpec |-> NoPath,
     swearsFileSpec |-> NoPath, forceDespiteTag |-> FALSE, beep |-> FALSE,
     beepHertz |-> BEEP_HERTZ_DEFAULT, padSecPre |-> 0, padSecPost |-> 0,
     outputJson |-> NoPath, inputTranscript |-> NoPath, explicitTranscript |-> FALSE,
     saveTranscript |-> FALSE, forceRetranscribe |-> FALSE,
     naughtyWordList |-> <<>>, muteTimeList |-> <<>>, sineTimeList |-> <<>>,
     beepDelayList |-> <<>>]

NoArgs == [kind |-> "none", mute |-> <<>>, sine |-> <<>>, delay |-> <<>>]

Has(evs, e) == \E i \in 1..Len(evs) : evs[i] = e

\* a transcript was classified: recognized, or loaded from a file
Classified(evs) == Has(evs, "recognize") \/ Has(evs, "load")

\* the last call: its name, whether it returned or what it raised, the
\* transcript source it used, the texts it classified, and whether the call
\* before it classified the same texts
Op(name, error, kind, raw, evs) ==
    [op |-> name, ok |-> error = "", error |-> error, kind |-> kind, raw |-> raw,
     again |-> Classified(evs) /\ Classified(events) /\ lastOp.raw = raw]

TranscriptFile(path) ==
    IF path \in DOMAIN transcriptFiles THEN transcriptFiles[path] ELSE NoTranscript

AudioFile(path) == IF path \in DOMAIN audio THEN audio[path] ELSE NoAudio

\* with --save-transcript and no --output-json the transcript path is derived
\* from the output file
SavedTranscriptPath(cfg) ==
    IF cfg.outputJson # NoPath THEN cfg.outputJson
    ELSE IF cfg.saveTranscript THEN CachePath ELSE NoPath

ReuseAlways(cfg, cacheExists) ==
    cfg.saveTranscript /\ SavedTranscriptPath(cfg) # NoPath /\ cacheExists

\* the transcript of an earlier run is reused: decided when the plugger is made
ReuseCache(cfg, cacheExists) ==
    /\ cfg.saveTranscript
    /\ cfg.inputTranscript = NoPath
    /\ SavedTranscriptPath(cfg) # NoPath
    /\ ~cfg.forceRetranscribe
    /\ cacheExists

\* the transcript source: the explicit file, else the reused cache, else none
InputTranscript(cfg, cacheExists) ==
    IF cfg.inputTranscript # NoPath THEN cfg.inputTranscript
    ELSE IF ReuseCache(cfg, cacheExists) THEN SavedTranscriptPath(cfg) ELSE NoPath

NewPlugger(cfg, cacheExists) ==
    [alive |-> TRUE, engine |-> cfg.engine, inputFileSpec |-> cfg.iFileSpec,
     outputFileSpec |-> cfg.oFileSpec, swearsFileSpec |-> cfg.iSwearsFileSpec,
     forceDespiteTag |-> cfg.force, beep |-> cfg.beep, beepHertz |-> BEEP_HERTZ_DEFAULT,
     padSecPre |-> Ms(cfg.padMsecPre), padSecPost |-> Ms(cfg.padMsecPost),
     outputJson |-> SavedTranscriptPath(cfg),
     inputTranscript |-> InputTranscript(cfg, cacheExists),
     explicitTranscript |-> cfg.inputTranscript # NoPath,
     saveTranscript |-> cfg.saveTranscript, forceRetranscribe |-> cfg.forceRetranscribe,
     naughtyWordList |-> <<>>, muteTimeList |-> <<>>, sineTimeList |-> <<>>,
     beepDelayList |-> <<>>]

\* construction without the check of the swears file
ConstructErrorNoSwears(inputOk, formatOk, swearsOk) ==
    IF ~inputOk THEN "IOError" ELSE IF ~formatOk THEN "ValueError" ELSE ""

\* what __init__ raises: the input file is checked first, then the output
\* format, then the swears file
ConstructError(inputOk, formatOk, swearsOk) ==
    IF ~inputOk THEN "IOError"
    ELSE IF ~formatOk THEN "ValueError"
    ELSE IF ~swearsOk THEN "IOError" ELSE ""

\* Plugger.__init__
Construct(cfg) ==
    LET cacheExists == TranscriptFile(SavedTranscriptPath(cfg)).exists
        inputOk == AudioFile(cfg.iFileSpec).exists
        formatOk == cfg.oAudioFileFormat \in AUDIO_DEFAULT_PARAMS_BY_FORMAT
        swearsOk == SwearsFile(cfg.iSwearsFileSpec).exists
        error == ConstructError(inputOk, formatOk, swearsOk)
        made == error = ""
    IN  /\ lastOp' = Op("Construct", error, "", <<>>, <<>>)
        /\ events' = <<>>
        /\ audio' = IF inputOk /\ formatOk
                    THEN [audio EXCEPT ![cfg.oFileSpec] = NoAudio]
                    ELSE audio
        /\ swearsMap' = IF made
                        THEN LoadSwearsFile(swearsMap, SwearsFile(cfg.iSwearsFileSpec))
                        ELSE swearsMap
        /\ self' = IF made THEN NewPlugger(cfg, cacheExists) ELSE self
        /\ UNCHANGED <<wordList, transcriptFiles, arg, res>>

Flags(words) == [i \in 1..Len(words) |-> words[i].scrub]
Texts(words) == [i \in 1..Len(words) |-> words[i].word]

\* if self.outputJson: f.write(json.dumps(self.wordList))
SaveTranscript(p, files, words) ==
    IF p.outputJson # NoPath
    THEN [files EXCEPT ![p.outputJson] = [exists |-> TRUE, words |-> words]]
    ELSE files

\* the transcript written twice
SavedEventsTwice(p) ==
    IF p.outputJson # NoPath THEN <<"savetranscript", "savetranscript">> ELSE <<>>

SavedEvents(p) == IF p.outputJson # NoPath THEN <<"savetranscript">> ELSE <<>>

UseTranscriptNever(p) == FALSE

\* LoadTranscriptFromFile returns False, and the recognizer runs, when the
\* plugger has no input transcript
UseTranscript(p) == p.inputTranscript # NoPath

\* the transcript of CreateCleanMuteList: loaded from the input transcript, or
\* recognized; r.ok is false when the step raises
Transcribe(p, texts, wavOk) ==
    IF UseTranscript(p)
    THEN IF TranscriptFile(p.inputTranscript).exists
         THEN [ok |-> TRUE, error |-> "", kind |-> "load",
               wordList |-> LoadedWords(TranscriptFile(p.inputTranscript), swearsMap),
               raw |-> Texts(TranscriptFile(p.inputTranscript).words),
               files |-> transcriptFiles, events |-> <<"load">>]
         ELSE [ok |-> FALSE, error |-> "IOError", kind |-> "load", wordList |-> wordList,
               raw |-> <<>>,
               files |-> transcriptFiles, events |-> <<>>]
    ELSE LET r == RecognizeSpeech(p, wordList, swearsMap, RawWords(texts), wavOk)
         IN  IF r.ok
             THEN [ok |-> TRUE, error |-> "", kind |-> "recognize", wordList |-> r.wordList,
                   raw |-> texts, files |-> SaveTranscript(p, transcriptFiles, r.wordList),
                   events |-> r.events \o SavedEvents(p)]
             ELSE [ok |-> FALSE, error |-> "ValueError", kind |-> "recognize",
                   wordList |-> wordList, raw |-> <<>>, files |-> transcriptFiles, events |-> r.events]

\* self.RecognizeSpeech(), called on the live plugger
RecognizeSpeechCall(texts, wavOk) ==
    LET r == RecognizeSpeech(self, wordList, swearsMap, RawWords(texts), wavOk)
    IN  /\ self.alive
        /\ lastOp' = Op("RecognizeSpeech", IF r.ok THEN "" ELSE "ValueError", "recognize",
                        IF r.ok THEN texts ELSE <<>>, r.events)
        /\ wordList' = r.wordList
        /\ events' = IF r.ok THEN r.events \o SavedEvents(self) ELSE r.events
        /\ transcriptFiles' = IF r.ok THEN SaveTranscript(self, transcriptFiles, r.wordList)
                              ELSE transcriptFiles
        /\ UNCHANGED <<swearsMap, self, audio, arg, res>>

\* self.LoadTranscriptFromFile(), called on the live plugger
LoadTranscriptFromFileCall ==
    LET t == Transcribe(self, <<>>, TRUE)
    IN  /\ self.alive
        /\ UseTranscript(self)
        /\ lastOp' = Op("LoadTranscriptFromFile", t.error, t.kind, t.raw, t.events)
        /\ wordList' = t.wordList
        /\ events' = t.events
        /\ UNCHANGED <<swearsMap, self, audio, transcriptFiles, arg, res>>

\* self.CreateCleanMuteList(), called on the live plugger
CreateCleanMuteListCall(texts, wavOk) ==
    LET t == Transcribe(self, texts, wavOk)
    IN  /\ self.alive
        /\ lastOp' = Op("CreateCleanMuteList", t.error, t.kind, t.raw, t.events)
        /\ wordList' = t.wordList
        /\ transcriptFiles' = t.files
        /\ events' = IF t.ok THEN t.events \o <<"synth">> ELSE t.events
        /\ self' = IF t.ok THEN WithMuteLists(self, t.wordList) ELSE self
        /\ UNCHANGED <<swearsMap, audio, arg, res>>

\* the audio arguments EncodeCleanAudio hands to ffmpeg
AudioArgs(p) ==
    IF Len(p.muteTimeList) > 0
    THEN IF p.beep
         THEN [kind |-> "filter_complex", mute |-> p.muteTimeList, sine |-> p.sineTimeList,
               delay |-> p.beepDelayList]
         ELSE [kind |-> "af", mute |-> p.muteTimeList, sine |-> <<>>, delay |-> <<>>]
    ELSE NoArgs

FfmpegOutcomes == {"ok", "error", "nofile"}

\* the output file ffmpeg leaves behind
Encoded(input, outcome) ==
    CASE outcome = "ok" ->
             [exists |-> TRUE, data |-> input.data, clean |-> TRUE, tags |-> NoTags,
              easy |-> input.easy, corrupt |-> FALSE, bad |-> {}]
      [] outcome = "error" ->
             [exists |-> TRUE, data |-> "partial", clean |-> FALSE, tags |-> NoTags,
              easy |-> FALSE, corrupt |-> FALSE, bad |-> {}]
      [] OTHER -> NoAudio

\* the output tagged whatever the encoder reported
TagOutputRegardless(out, outcome, write) ==
    [file |-> SetMonkeyplugTag(out, write = "saved"), events |-> <<"tagwrite">>]

\* the raise on a failed encode, and else SetMonkeyplugTag(self.outputFileSpec)
TagOutput(out, outcome, write) ==
    IF outcome = "ok"
    THEN [file |-> SetMonkeyplugTag(out, write = "saved"), events |-> <<"tagwrite">>]
    ELSE [file |-> out, events |-> <<>>]

\* the force flag without effect
IgnoreForce(p, tagged) == ~tagged

AlwaysEncode(p, tagged) == TRUE

\* if (self.forceDespiteTag is True) or (GetMonkeyplugTagged(...) is False)
MustEncode(p, tagged) == p.forceDespiteTag \/ ~tagged

\* the outcomes of SetMonkeyplugTag on the output: the tag is saved, the save
\* fails and is reported, or mutagen.File raises
TagWrites == {"saved", "failed", "raises"}

\* self.EncodeCleanAudio(), called on the live plugger; GetMonkeyplugTagged is
\* called only when forceDespiteTag is not set
EncodeCleanAudio(texts, wavOk, outcome, write) ==
    LET check == GetMonkeyplugTagged(AudioFile(self.inputFileSpec))
        called == ~self.forceDespiteTag
        checked == IF called THEN <<"tagcheck">> ELSE <<>>
        t == Transcribe(self, texts, wavOk)
        p == WithMuteLists(self, t.wordList)
        out == Encoded(AudioFile(self.inputFileSpec), outcome)
    IN  /\ self.alive
        /\ IF called /\ check.raised
           THEN /\ lastOp' = Op("EncodeCleanAudio", "MutagenError", "tagcheck", <<>>, <<>>)
                /\ events' = checked
                /\ UNCHANGED <<self, wordList, transcriptFiles, audio>>
           ELSE IF MustEncode(self, check.result)
           THEN IF t.ok
                THEN /\ self' = p
                     /\ wordList' = t.wordList
                     /\ transcriptFiles' = t.files
                     /\ lastOp' = Op("EncodeCleanAudio",
                                     IF outcome # "ok" THEN "ValueError"
                                     ELSE IF write = "raises" THEN "MutagenError"
                                     ELSE "",
                                     t.kind, t.raw, t.events)
                     /\ events' = checked \o t.events \o <<"synth", "encode">>
                                  \o TagOutput(out, outcome, write).events
                     /\ audio' = [audio EXCEPT ![self.outputFileSpec] =
                                     TagOutput(out, outcome, write).file]
                ELSE /\ lastOp' = Op("EncodeCleanAudio", t.error, t.kind, t.raw, t.events)
                     /\ events' = checked \o t.events
                     /\ UNCHANGED <<self, wordList, transcriptFiles, audio>>
           ELSE /\ lastOp' = Op("EncodeCleanAudio", "", "copy", <<>>, <<>>)
                /\ events' = checked \o <<"copy">>
                /\ audio' = [audio EXCEPT ![self.outputFileSpec] =
                                AudioFile(self.inputFileSpec)]
                /\ UNCHANGED <<self, wordList, transcriptFiles>>
        /\ UNCHANGED <<swearsMap, arg, res>>

(***************************************************************************)
(* The specification of the plugger                                        *)
(***************************************************************************)
Source ==
    [exists |-> TRUE, data |-> "song", clean |-> FALSE, tags |-> NoTags, easy |-> TRUE,
     corrupt |-> FALSE, bad |-> {}]

TaggedSource ==
    [exists |-> TRUE, data |-> "cleaned", clean |-> TRUE,
     tags |-> [NoTags EXCEPT !["encodedby"] = {MUTAGEN_METADATA_TAG_VALUE}], easy |-> TRUE,
     corrupt |-> FALSE, bad |-> {}]

\* an input file that mutagen.File cannot open
CorruptSource == [Source EXCEPT !.corrupt = TRUE]

Idle == [f |-> "idle"]

Cfg(in, fmt, swears, explicit, save, retranscribe, pad, beep, force, engine) ==
    [iFileSpec |-> in, oFileSpec |-> OutputPath, oAudioFileFormat |-> fmt,
     iSwearsFileSpec |-> swears,
     outputJson |-> NoPath, inputTranscript |-> explicit, saveTranscript |-> save,
     forceRetranscribe |-> retranscribe, padMsecPre |-> pad, padMsecPost |-> pad,
     beep |-> beep, force |-> force, engine |-> engine]

PadMs == 100

\* the command lines tried: each choice of transcript options, the tagged
\* input with and without --force, the other dictionaries, the other engine,
\* and one for each way construction fails
Cfgs ==
    {Cfg("in.mp3", "mp3", "swears_a.txt", ex, save, re, 0, FALSE, FALSE, "whisper") :
        ex \in {NoPath, ExplicitPath}, save \in BOOLEAN, re \in BOOLEAN}
    \cup {Cfg("tagged.mp3", "mp3", "swears_a.txt", NoPath, FALSE, FALSE, 0, FALSE, force,
               "whisper") : force \in BOOLEAN}
    \cup {Cfg("corrupt.mp3", "mp3", "swears_a.txt", NoPath, FALSE, FALSE, 0, FALSE, FALSE,
               "whisper")}
    \cup {Cfg("in.mp3", "mp3", sw, NoPath, FALSE, FALSE, 0, FALSE, FALSE, "whisper") :
            sw \in {"swears_b.txt", "swears.json", "missing.txt"}}
    \cup {Cfg("in.mp3", "mp3", "swears_a.txt", NoPath, FALSE, FALSE, PadMs, beep, FALSE,
               "vosk") : beep \in BOOLEAN}
    \cup {Cfg("nofile.mp3", "mp3", "swears_a.txt", NoPath, FALSE, FALSE, 0, FALSE, FALSE,
               "whisper"),
           Cfg("in.mp3", "xyz", "swears_a.txt", NoPath, FALSE, FALSE, 0, FALSE, FALSE,
               "whisper"),
           Cfg("in.mp3", "mp3", "swears_a.txt", MissingTranscriptPath, FALSE, FALSE, 0,
               FALSE, FALSE, "whisper")}

InitFiles(cache) ==
    /\ audio = [a \in AudioPaths |->
                   CASE a = "in.mp3" -> Source
                     [] a = "tagged.mp3" -> TaggedSource
                     [] a = "corrupt.mp3" -> CorruptSource
                     [] OTHER -> NoAudio]
    /\ transcriptFiles = [t \in TranscriptPaths |->
                             IF t = ExplicitPath THEN ExplicitTranscript ELSE cache]

InitProcess ==
    /\ swearsMap = EmptyMap
    /\ wordList = <<>>
    /\ self = NoPlugger
    /\ events = <<>>
    /\ lastOp = [op |-> "Init", ok |-> TRUE, error |-> "", kind |-> "", raw |-> <<>>,
                 again |-> FALSE]

Init ==
    /\ InitProcess
    /\ \E cache \in {NoTranscript, StaleCache} : InitFiles(cache)
    /\ arg = Idle
    /\ res = Idle

\* the recognizer is consulted only when no transcript file is used
Heard(p) == IF UseTranscript(p) THEN {<<>>} ELSE RecognizerOutputs

\* only the Vosk engine converts the input to an intermediate WAV file first
WavOutcomes(p) == IF p.engine = "vosk" THEN BOOLEAN ELSE {TRUE}

\* the tag is written only to a file ffmpeg has produced
TagSaves(outcome) == IF outcome = "ok" THEN TagWrites ELSE {"failed"}

Next ==
    \/ \E cfg \in Cfgs : Construct(cfg)
    \/ \E texts \in RecognizerOutputs, wavOk \in WavOutcomes(self) :
           RecognizeSpeechCall(texts, wavOk)
    \/ LoadTranscriptFromFileCall
    \/ \E texts \in Heard(self), wavOk \in WavOutcomes(self) :
           CreateCleanMuteListCall(texts, wavOk)
    \/ \E texts \in Heard(self), wavOk \in WavOutcomes(self), outcome \in FfmpegOutcomes :
           \E write \in TagSaves(outcome) : EncodeCleanAudio(texts, wavOk, outcome, write)

Spec == Init /\ [][Next]_vars

(***************************************************************************)
(* The specification of successive runs: a run cleans in.mp3 into out.mp3, *)
(* a later run takes out.mp3 as its input and writes out2.mp3              *)
(***************************************************************************)
FirstRuns ==
    {Cfg("in.mp3", "mp3", "swears_a.txt", NoPath, FALSE, FALSE, 0, beep, FALSE, engine) :
        beep \in BOOLEAN, engine \in {"whisper", "vosk"}}

SecondRuns ==
    {[Cfg(OutputPath, "mp3", "swears_a.txt", NoPath, FALSE, FALSE, 0, FALSE, force,
          "whisper") EXCEPT !.oFileSpec = SecondOutputPath] : force \in BOOLEAN}

RunCfgs == FirstRuns \cup SecondRuns

RunNext ==
    \/ \E cfg \in RunCfgs : Construct(cfg)
    \/ \E texts \in Heard(self), wavOk \in WavOutcomes(self), outcome \in FfmpegOutcomes :
           \E write \in TagSaves(outcome) : EncodeCleanAudio(texts, wavOk, outcome, write)

SpecRuns == Init /\ [][RunNext]_vars

(***************************************************************************)
(* The specification of the pure functions: scrubword and the loaders of  *)
(* the swears file, applied to every input within the bounds              *)
(***************************************************************************)
MaxLines == 2

Alphabet == {"d", "D", " ", "!"}

ScrubTexts == UNION {[1..n -> Alphabet] : n \in 0..MaxLen}

ToggleCase(c) ==
    IF c \in DOMAIN UpperToLower THEN UpperToLower[c]
    ELSE IF c \in DOMAIN LowerToUpper THEN LowerToUpper[c] ELSE c

InsertAt(s, i, c) == SubSeq(s, 1, i - 1) \o <<c>> \o SubSeq(s, i, Len(s))

\* the texts that differ from s in the case of one letter, in one punctuation
\* character, or in one leading or trailing whitespace character
Variants(s) ==
    {[s EXCEPT ![i] = ToggleCase(s[i])] : i \in 1..Len(s)}
    \cup {InsertAt(s, i, "!") : i \in 1..(Len(s) + 1)}
    \cup {<<" ">> \o s, s \o <<" ">>}

RECURSIVE Join(_)
Join(lines) ==
    IF lines = <<>> THEN <<>>
    ELSE IF Len(lines) = 1 THEN lines[1]
    ELSE lines[1] \o NL \o Join(Tail(lines))

\* the file written from the lines, with or without a newline after the last
Content(lines, nl) == Join(lines) \o (IF nl /\ Len(lines) > 0 THEN NL ELSE <<>>)

Blank == <<>>
Comment == <<"#", " ", "x">>
Damn == <<"D", "a", "m", "n", "!">>

DictLines == {heck, heck \o Bar \o heck, heck \o Bar \o darn, Damn, Blank, Comment}

BareWords == {damn, Damn, hell, heck}

SeqsUpTo(S, n) == UNION {[1..k -> S] : k \in 0..n}

PureArgs ==
    {[f |-> "scrubword", a |-> a, b |-> b] : a \in ScrubTexts, b \in ScrubTexts}
    \cup {[f |-> "text", lines |-> ls, nl |-> nl] :
             ls \in SeqsUpTo(DictLines, MaxLines), nl \in BOOLEAN}
    \cup {[f |-> "both", words |-> ws, nl |-> nl] :
             ws \in SeqsUpTo(BareWords, MaxLines), nl \in BOOLEAN}

PureInit ==
    /\ InitProcess
    /\ InitFiles(NoTranscript)
    /\ arg \in {x \in PureArgs : x.f = "scrubword" => x.b \in Variants(x.a)}
    /\ res = Idle

\* scrubword(a), scrubword(b)
Scrubword ==
    /\ arg.f = "scrubword"
    /\ res = Idle
    /\ res' = [f |-> "scrubword", a |-> scrubword(arg.a), b |-> scrubword(arg.b)]
    /\ UNCHANGED <<swearsMap, wordList, self, audio, transcriptFiles, events, lastOp, arg>>

\* the text file is loaded into an empty swearsMap
LoadText ==
    /\ arg.f = "text"
    /\ res = Idle
    /\ res' = [f |-> "text",
               map |-> LoadSwearsFromText(EmptyMap, Content(arg.lines, arg.nl))]
    /\ UNCHANGED <<swearsMap, wordList, self, audio, transcriptFiles, events, lastOp, arg>>

\* the same words are loaded from a JSON list and from a text file
LoadBoth ==
    /\ arg.f = "both"
    /\ res = Idle
    /\ res' = [f |-> "both",
               json |-> LoadSwearsFile(EmptyMap,
                            [exists |-> TRUE, json |-> TRUE, content |-> <<>>,
                             words |-> arg.words]),
               text |-> LoadSwearsFile(EmptyMap,
                            [exists |-> TRUE, json |-> FALSE,
                             content |-> Content(arg.words, arg.nl), words |-> <<>>])]
    /\ UNCHANGED <<swearsMap, wordList, self, audio, transcriptFiles, events, lastOp, arg>>

PureNext == Scrubword \/ LoadText \/ LoadBoth

SpecPure == PureInit /\ [][PureNext]_vars

(***************************************************************************)
(* AudioFilterBuilder                                                      *)
(***************************************************************************)
EmptyArgs == <<>>

\* ['-af', ','.join(mute_time_list)] if mute_time_list else []
build_mute_filters(mute_time_list) ==
    IF Len(mute_time_list) > 0
    THEN [kind |-> "af", mute |-> mute_time_list]
    ELSE EmptyArgs

\* every tone labelled [beep1] or [beep1_delayed]
LabelFirst(n, delayed) == [name |-> "beep", n |-> 1, delayed |-> delayed]

\* the label [beep{n}] or [beep{n}_delayed]
Label(n, delayed) == [name |-> "beep", n |-> n, delayed |-> delayed]

\* str(mix_normalize).lower()
BoolLower(b) == IF b THEN "true" ELSE "false"

build_beep_filters(mute_time_list, sine_time_list, beep_delay_list, mix_normalize, audio_weight, sine_weight, dropout_transition) ==
    IF Len(mute_time_list) = 0
    THEN EmptyArgs
    ELSE [kind |-> "filter_complex",
          mute |-> mute_time_list,
          sine |-> [i \in 1..Len(sine_time_list) |->
                        [entry |-> sine_time_list[i], out |-> Label(i, FALSE)]],
          delay |-> [i \in 1..Len(beep_delay_list) |->
                        [in |-> Label(i, FALSE), entry |-> beep_delay_list[i],
                         out |-> Label(i, TRUE)]],
          mix |-> [i \in 1..Len(beep_delay_list) |-> Label(i, TRUE)],
          inputs |-> Len(beep_delay_list) + 1,
          normalize |-> BoolLower(mix_normalize),
          dropout_transition |-> dropout_transition,
          weights |-> <<audio_weight>> \o [i \in 1..Len(beep_delay_list) |-> sine_weight]]

create_mute_time_entry(start_time, end_time, peek_start_time) ==
    LET start_str == Format3(start_time)
        end_str == Format3(end_time)
        peek_str == Format3(peek_start_time)
    IN  <<Afade("out", start_str, end_str, start_str),
          Afade("in", end_str, peek_str, end_str)>>

create_beep_entries(start_time, end_time, beep_hertz) ==
    LET start_str == Format3(start_time)
        end_str == Format3(end_time)
        duration == Format3(end_time - start_time)
        delay_ms == IntTimes1000(start_time)
    IN  [mute_entry |-> Volume(start_str, end_str),
         sine_entry |-> [f |-> "sine", hz |-> beep_hertz, duration |-> duration],
         delay_entry |-> [f |-> "atrim", duration |-> duration,
                          adelay |-> <<delay_ms, delay_ms>>]]

(***************************************************************************)
(* The specification of the filter builders: CreateCleanMuteList and the  *)
(* AudioFilterBuilder functions, applied to every input within the bounds  *)
(***************************************************************************)
MaxTranscript == 3

world == <<"w", "o", "r", "l", "d">>

Timed(text, start, end) == [word |-> text, start |-> start, end |-> end]

\* words as a recognizer or a transcript file gives them: back to back, with
\* times off the millisecond, without duration, and ending before they start
TimedWords ==
    {Timed(hello, Ms(0), Ms(500)),
     Timed(damn, Ms(0), Ms(500)),
     Timed(damn, Ms(500), Ms(1000)),
     Timed(world, Ms(1000), Ms(1500)),
     Timed(<<" ", "D", "a", "m", "n", "!">>, Ms(1000), Ms(1500)),
     Timed(damn, Ms(1020), Ms(1500)),
     Timed(damn, Ms(1020) + 4, Ms(1500) + 6),
     Timed(damn, Ms(2000), Ms(2000)),
     Timed(damn, Ms(2500), Ms(2400))}

\* each word starts after the one before it started, and not before it ended
Chronological(ws) ==
    \A i \in 1..(Len(ws) - 1) :
        /\ ws[i].start < ws[i + 1].start
        /\ ws[i].end <= ws[i + 1].start

Transcripts == {ws \in SeqsUpTo(TimedWords, MaxTranscript) : Chronological(ws)}

PadsPre == {0, 1, 100, 500}
PadsPost == {0, 200, 500}

\* the dictionary of a swears file with the one line "damn"
DamnOnly == LoadSwearsFromText(EmptyMap, damn)

MaxTones == 3

\* how often one plugger is asked for its lists
MaxCalls == 3

\* times in seconds, on and off the millisecond
TimePoints ==
    {4, Ms(500), Ms(1000), Ms(1000) + 6, Ms(1019), Ms(1500), Ms(2000), Ms(2500)}

Hertz == {BEEP_HERTZ_DEFAULT, 440}

\* the entries of one tone, and the lists of up to MaxTones tones
Tones ==
    {create_beep_entries(Ms(1000), Ms(2000), BEEP_HERTZ_DEFAULT),
     create_beep_entries(Ms(2000), Ms(2500), BEEP_HERTZ_DEFAULT)}

ToneLists == SeqsUpTo(Tones, MaxTones)

Weights == {1, 2}
DropoutTransitions == {0, 2}

\* files as GetMonkeyplugTagged can meet them
TagValues == {MUTAGEN_METADATA_TAG_VALUE, "lame"}

TagFiles ==
    {[exists |-> ex, data |-> "song", clean |-> FALSE, tags |-> tags, easy |-> easy,
      corrupt |-> corrupt, bad |-> bad] :
        ex \in BOOLEAN, easy \in BOOLEAN, corrupt \in BOOLEAN,
        tags \in [DOMAIN NoTags -> SUBSET TagValues], bad \in SUBSET DOMAIN NoTags}

FilterArgs ==
    {[f |-> "GetMonkeyplugTagged", file |-> file] : file \in TagFiles}
    \cup
    {[f |-> "CreateCleanMuteList", raw |-> ws, padMsecPre |-> pre, padMsecPost |-> post,
      beep |-> beep] :
        ws \in Transcripts, pre \in PadsPre, post \in PadsPost, beep \in BOOLEAN}
    \cup
    {[f |-> "create_mute_time_entry", start_time |-> s, end_time |-> e,
      peek_start_time |-> k] : s \in TimePoints, e \in TimePoints, k \in TimePoints}
    \cup
    {[f |-> "create_beep_entries", start_time |-> s, end_time |-> e, beep_hertz |-> hz] :
        s \in TimePoints, e \in TimePoints, hz \in Hertz}
    \cup
    {[f |-> "build_mute_filters", mute_time_list |-> Flatten(es)] :
        es \in SeqsUpTo({create_mute_time_entry(Ms(500), Ms(1000), Ms(2000)),
                         create_mute_time_entry(Ms(1500), Ms(2000), Ms(3000))}, MaxTones)}
    \cup
    {[f |-> "build_beep_filters", tones |-> ts, muted |-> m, mix_normalize |-> n,
      audio_weight |-> aw, sine_weight |-> sw, dropout_transition |-> d] :
        ts \in ToneLists, m \in BOOLEAN, n \in BOOLEAN, aw \in Weights, sw \in Weights,
        d \in DropoutTransitions}

FilterInit ==
    /\ InitProcess
    /\ InitFiles(NoTranscript)
    /\ arg \in FilterArgs
    /\ res = Idle

\* a plugger with the given padding and mode recognizes the words and builds
\* its lists, and EncodeCleanAudio its audio arguments
CreateCleanMuteList ==
    LET p == [NoPlugger EXCEPT !.alive = TRUE, !.engine = "whisper", !.beep = arg.beep,
                               !.padSecPre = Ms(arg.padMsecPre),
                               !.padSecPost = Ms(arg.padMsecPost)]
        words == WhisperWords(arg.raw, DamnOnly)
        q == WithMuteLists(p, words)
    IN  /\ arg.f = "CreateCleanMuteList"
        /\ res = Idle
        /\ res' = [f |-> "CreateCleanMuteList", calls |-> 1, wordList |-> words, self |-> q,
                   audioArgs |-> AudioArgs(q)]
        /\ UNCHANGED <<swearsMap, wordList, self, audio, transcriptFiles, events, lastOp, arg>>

\* the same plugger is asked again: the recognizer returns the same transcript
\* and CreateCleanMuteList rebuilds the lists of the plugger
CreateCleanMuteListAgain ==
    LET r == RecognizeSpeech(res.self, res.wordList, DamnOnly, arg.raw, TRUE)
        q == WithMuteLists(res.self, r.wordList)
    IN  /\ arg.f = "CreateCleanMuteList"
        /\ res.f = "CreateCleanMuteList"
        /\ res.calls < MaxCalls
        /\ res' = [f |-> "CreateCleanMuteList", calls |-> res.calls + 1,
                   wordList |-> r.wordList, self |-> q, audioArgs |-> AudioArgs(q)]
        /\ UNCHANGED <<swearsMap, wordList, self, audio, transcriptFiles, events, lastOp, arg>>

CreateMuteTimeEntry ==
    /\ arg.f = "create_mute_time_entry"
    /\ res = Idle
    /\ res' = [f |-> "create_mute_time_entry",
               entries |-> create_mute_time_entry(arg.start_time, arg.end_time,
                                                  arg.peek_start_time)]
    /\ UNCHANGED <<swearsMap, wordList, self, audio, transcriptFiles, events, lastOp, arg>>

CreateBeepEntries ==
    /\ arg.f = "create_beep_entries"
    /\ res = Idle
    /\ res' = [f |-> "create_beep_entries",
               entries |-> create_beep_entries(arg.start_time, arg.end_time, arg.beep_hertz)]
    /\ UNCHANGED <<swearsMap, wordList, self, audio, transcriptFiles, events, lastOp, arg>>

BuildMuteFilters ==
    /\ arg.f = "build_mute_filters"
    /\ res = Idle
    /\ res' = [f |-> "build_mute_filters", args |-> build_mute_filters(arg.mute_time_list)]
    /\ UNCHANGED <<swearsMap, wordList, self, audio, transcriptFiles, events, lastOp, arg>>

\* the three lists of a call: one entry of each list per tone, or no mute list
MuteEntries(a) == IF a.muted THEN [i \in 1..Len(a.tones) |-> a.tones[i].mute_entry] ELSE <<>>
SineEntries(a) == [i \in 1..Len(a.tones) |-> a.tones[i].sine_entry]
DelayEntries(a) == [i \in 1..Len(a.tones) |-> a.tones[i].delay_entry]

BuildBeepFilters ==
    /\ arg.f = "build_beep_filters"
    /\ res = Idle
    /\ res' = [f |-> "build_beep_filters",
               args |-> build_beep_filters(MuteEntries(arg), SineEntries(arg),
                                           DelayEntries(arg), arg.mix_normalize,
                                           arg.audio_weight, arg.sine_weight,
                                           arg.dropout_transition)]
    /\ UNCHANGED <<swearsMap, wordList, self, audio, transcriptFiles, events, lastOp, arg>>

ReadTag ==
    /\ arg.f = "GetMonkeyplugTagged"
    /\ res = Idle
    /\ res' = [f |-> "GetMonkeyplugTagged", out |-> GetMonkeyplugTagged(arg.file)]
    /\ UNCHANGED <<swearsMap, wordList, self, audio, transcriptFiles, events, lastOp, arg>>

FilterNext ==
    \/ CreateCleanMuteList
    \/ CreateCleanMuteListAgain
    \/ ReadTag
    \/ CreateMuteTimeEntry
    \/ CreateBeepEntries
    \/ BuildMuteFilters
    \/ BuildBeepFilters

SpecFilters == FilterInit /\ [][FilterNext]_vars

(***************************************************************************)
(* Properties of the plugger, checked under Spec                           *)
(***************************************************************************)
Pipeline == {"CreateCleanMuteList", "EncodeCleanAudio"}

InputTagged == GetMonkeyplugTagged(AudioFile(self.inputFileSpec)).result

\* C1: when the input file carries the monkeyplug tag and the force flag is
\* false, EncodeCleanAudio recognizes nothing, classifies nothing, builds no
\* mute list and does not call the encoder: the word list, the plugger's lists
\* and the transcript files stay as they were, and the output file is the input
\* file, byte for byte.
C1_TagShortCircuit ==
    [][(lastOp'.op = "EncodeCleanAudio" /\ InputTagged /\ ~self.forceDespiteTag)
           => /\ events' = <<"tagcheck", "copy">>
              /\ wordList' = wordList
              /\ self' = self
              /\ transcriptFiles' = transcriptFiles
              /\ audio'[self.outputFileSpec] = audio[self.inputFileSpec]
              /\ audio'[self.inputFileSpec] = audio[self.inputFileSpec]]_vars

C1_Witness ==
    /\ lastOp.op = "EncodeCleanAudio"
    /\ InputTagged
    /\ ~self.forceDespiteTag
    /\ events = <<"tagcheck", "copy">>
    /\ audio[self.outputFileSpec] = TaggedSource

C4_LoadRecomputesScrub ==
    Has(events, "load")
        => /\ Len(wordList) = Len(TranscriptFile(self.inputTranscript).words)
           /\ \A i \in 1..Len(wordList) :
                 /\ wordList[i].word = TranscriptFile(self.inputTranscript).words[i].word
                 /\ wordList[i].scrub <=> scrubword(wordList[i].word) \in DOMAIN swearsMap

C4_Witness ==
    /\ Has(events, "load")
    /\ \E i \in 1..Len(wordList) :
          /\ ~TranscriptFile(self.inputTranscript).words[i].scrub
          /\ wordList[i].scrub
    /\ \E i \in 1..Len(wordList) :
          /\ TranscriptFile(self.inputTranscript).words[i].scrub
          /\ ~wordList[i].scrub

\* the dictionary of the swears file this plugger was given
OwnDictionary == LoadSwearsFile(EmptyMap, SwearsFile(self.swearsFileSpec))

\* C5: after recognition or a transcript load, a word of wordList is flagged
\* exactly when its normalized text is a key of the dictionary loaded from the
\* swears file this plugger was given.
C5_ScrubIffInOwnDictionary ==
    Classified(events)
        => \A i \in 1..Len(wordList) :
              wordList[i].scrub <=> scrubword(wordList[i].word) \in DOMAIN OwnDictionary

C7_ScrubwordCanonical == res.f = "scrubword" => res.a = res.b

LastLine == arg.lines[Len(arg.lines)]

\* C8 as stated: the lines "heck" and "heck|heck" both give the key "heck" the
\* replacement "*****", and "heck|darn" gives it "darn".
C8_HeckHeckIsMasked ==
    (res.f = "text" /\ Len(arg.lines) > 0)
        => /\ LastLine \in {heck, heck \o Bar \o heck} => res.map[heck] = Mask
           /\ LastLine = heck \o Bar \o darn => res.map[heck] = darn

\* C8: a line without "|" gives its key the replacement "*****", and a line
\* "key|replacement" gives it the replacement written after the bar, also when
\* that is the key itself: "heck" yields "*****", "heck|heck" yields "heck" and
\* "heck|darn" yields "darn"; the last line of a key decides.
C8_ReplacementOfLine ==
    (res.f = "text" /\ Len(arg.lines) > 0)
        => /\ LastLine = heck => res.map[heck] = Mask
           /\ LastLine = heck \o Bar \o heck => res.map[heck] = heck
           /\ LastLine = heck \o Bar \o darn => res.map[heck] = darn

C8_Witness ==
    /\ res.f = "text"
    /\ Len(arg.lines) = MaxLines
    /\ arg.lines[1] = heck \o Bar \o darn
    /\ LastLine = heck \o Bar \o heck
    /\ res.map[heck] = heck

IsBlankLine(line) == strip(line) = <<>>

IsCommentLine(line) == Len(lstrip(line)) > 0 /\ lstrip(line)[1] = "#"

\* C10: blank lines and comment lines of the text file add nothing: the keys
\* are the normalized words of the other lines, and "" is not a key.
C10_BlankAndCommentIgnored ==
    res.f = "text"
        => LET lines == FileLines(Content(arg.lines, arg.nl))
               kept == {i \in 1..Len(lines) :
                           ~IsBlankLine(lines[i]) /\ ~IsCommentLine(lines[i])}
           IN  /\ DOMAIN res.map = {scrubword(split(lines[i], "|")[1]) : i \in kept}
               /\ <<>> \notin DOMAIN res.map


(***************************************************************************)
(* Properties of the filter builders, checked under SpecFilters            *)
(***************************************************************************)
Built == res.f = "CreateCleanMuteList"

\* the words of the transcript that were flagged, without the dummy word
Flagged == SelectSeq(res.wordList, LAMBDA w : w.scrub)

\* the padded interval of the next flagged word starts no later than the
\* padded interval of flagged word i ends
Abuts(i) ==
    Flagged[i + 1].start - res.self.padSecPre <= Flagged[i].end + res.self.padSecPost

\* C11: in mute mode, when the padded intervals of two consecutive naughty
\* words abut or overlap, the mute list holds no fade-in whose window ends
\* before it starts
C11_NoInvertedFadeIn ==
    Built /\ ~arg.beep =>
        \A i \in 1..(Len(Flagged) - 1) :
            Abuts(i) =>
                /\ res.self.muteTimeList[2 * i].t = "in"
                /\ res.self.muteTimeList[2 * i].to >= res.self.muteTimeList[2 * i].from

\* the entry of the mute list that silences flagged word i
Region(i) ==
    IF arg.beep THEN res.self.muteTimeList[i] ELSE res.self.muteTimeList[2 * i - 1]

\* ms, a time in whole milliseconds, is the three-decimal value of the time x
Nearest(ms, x) == 2 * Abs(Ms(ms) - x) <= TicksPerMs

\* C12: the silence region of a naughty word starts at the word's start minus
\* the pre-padding and ends at the word's end plus the post-padding, both at
\* three decimals; each padding moves its own boundary only
C12_RegionIsPaddedWord ==
    Built =>
        \A i \in 1..Len(Flagged) :
            /\ Nearest(Region(i).from, Flagged[i].start - Ms(arg.padMsecPre))
            /\ Nearest(Region(i).to, Flagged[i].end + Ms(arg.padMsecPost))

C12_Witness ==
    /\ Built
    /\ arg.padMsecPre = 100
    /\ arg.padMsecPost = 200
    /\ \E i \in 1..Len(Flagged) :
        /\ Flagged[i].start = Ms(1000)
        /\ Flagged[i].end = Ms(1500)
        /\ Region(i).from = 900
        /\ Region(i).to = 1700

\* C13: in beep mode the duration of the tone, in the sine entry and in the
\* atrim entry, is the difference of the end and the start written in the mute
\* entry, for CreateCleanMuteList and for create_beep_entries
C13_DurationIsWrittenDifference ==
    /\ Built /\ arg.beep =>
        \A i \in 1..Len(Flagged) :
            /\ res.self.sineTimeList[i].duration = Region(i).to - Region(i).from
            /\ res.self.beepDelayList[i].duration = Region(i).to - Region(i).from
    /\ res.f = "create_beep_entries" =>
        /\ res.entries.sine_entry.duration =
               res.entries.mute_entry.to - res.entries.mute_entry.from
        /\ res.entries.delay_entry.duration =
               res.entries.mute_entry.to - res.entries.mute_entry.from

\* C14: in beep mode the tone is delayed by the start written in the mute
\* entry, in milliseconds, the same number for both channels
C14_DelayIsWrittenStart ==
    /\ Built /\ arg.beep =>
        \A i \in 1..Len(Flagged) :
            res.self.beepDelayList[i].adelay = <<Region(i).from, Region(i).from>>
    /\ res.f = "create_beep_entries" =>
        res.entries.delay_entry.adelay =
            <<res.entries.mute_entry.from, res.entries.mute_entry.from>>

\* the transcript hello 0-0.5, damn 0.5-1.0, world 1.0-1.5
HelloDamnWorld ==
    <<Timed(hello, Ms(0), Ms(500)), Timed(damn, Ms(500), Ms(1000)),
      Timed(world, Ms(1000), Ms(1500))>>

EndToEnd ==
    /\ Built
    /\ arg.raw = HelloDamnWorld
    /\ ~arg.beep
    /\ arg.padMsecPre = 0
    /\ arg.padMsecPost = 0

\* C15: in mute mode without padding, the transcript hello, damn, world with
\* the dictionary {damn} has the one naughty word damn, and its mute list is
\* the one interval 0.500 to 1.000: a fade-out anchored at 0.500 and a fade-in
\* anchored at 1.000
C15_EndToEndMute ==
    EndToEnd =>
        /\ Flagged = <<Word(damn, Ms(500), Ms(1000), TRUE)>>
        /\ Len(res.self.naughtyWordList) = 2
        /\ res.self.naughtyWordList[1] = Flagged[1]
        /\ res.self.naughtyWordList[2].word = mothaflippin
        /\ res.self.muteTimeList = <<Afade("out", 500, 1000, 500), Afade("in", 1000, 2000, 1000)>>
        /\ res.audioArgs.kind = "af"
        /\ res.audioArgs.mute = res.self.muteTimeList

C15_Witness == EndToEnd /\ Len(res.self.muteTimeList) = 2

\* C16: no mute, sine or delay entry with a duration of zero or less is
\* emitted, by CreateCleanMuteList or by create_beep_entries
C16_NoEntryWithoutDuration ==
    /\ Built =>
        \A i \in 1..Len(Flagged) :
            /\ Region(i).to > Region(i).from
            /\ arg.beep => /\ res.self.sineTimeList[i].duration > 0
                           /\ res.self.beepDelayList[i].duration > 0
    /\ res.f = "create_beep_entries" =>
        /\ res.entries.mute_entry.to > res.entries.mute_entry.from
        /\ res.entries.sine_entry.duration > 0
        /\ res.entries.delay_entry.duration > 0

\* C17: in mute mode no naughty word gives no filter argument; N naughty words
\* give 2N entries, a fade-out and a fade-in per naughty word in the order of
\* the transcript, and none for the dummy word; build_mute_filters gives the
\* empty list for the empty chain and -af with the chain otherwise
C17_MuteChainShape ==
    /\ Built /\ ~arg.beep =>
        /\ Len(res.self.muteTimeList) = 2 * Len(Flagged)
        /\ \A i \in 1..Len(Flagged) :
            /\ res.self.muteTimeList[2 * i - 1].t = "out"
            /\ Nearest(res.self.muteTimeList[2 * i - 1].st,
                       Flagged[i].start - Ms(arg.padMsecPre))
            /\ res.self.muteTimeList[2 * i].t = "in"
            /\ Nearest(res.self.muteTimeList[2 * i].st,
                       Flagged[i].end + Ms(arg.padMsecPost))
        /\ Len(Flagged) = 0 => res.audioArgs = NoArgs
        /\ Len(Flagged) > 0 =>
            /\ res.audioArgs.kind = "af"
            /\ res.audioArgs.mute = res.self.muteTimeList
            /\ Len(res.self.naughtyWordList) = Len(Flagged) + 1
    /\ res.f = "build_mute_filters" =>
        IF arg.mute_time_list = <<>>
        THEN res.args = <<>>
        ELSE res.args.kind = "af" /\ res.args.mute = arg.mute_time_list

C17_Witness ==
    /\ Built
    /\ ~arg.beep
    /\ Len(Flagged) = 2
    /\ Len(res.self.naughtyWordList) = 3
    /\ Len(res.self.muteTimeList) = 4
    /\ res.audioArgs.kind = "af"

\* the labels a beep graph defines: the outputs of its sine and delay entries
DefinedLabels(g) ==
    {g.sine[i].out : i \in 1..Len(g.sine)} \cup {g.delay[i].out : i \in 1..Len(g.delay)}

\* C18: build_beep_filters returns the empty list for an empty mute list; for
\* k tones it labels them beep1..beepk and beep1_delayed..beepk_delayed, no
\* label twice, mixes k + 1 inputs with the audio weight followed by k times
\* the tone weight, and passes on the normalize flag and dropout transition
C18_BeepGraphShape ==
    res.f = "build_beep_filters" =>
        IF ~arg.muted \/ arg.tones = <<>>
        THEN res.args = <<>>
        ELSE LET k == Len(arg.tones)
                 g == res.args
             IN  /\ g.kind = "filter_complex"
                 /\ Len(g.sine) = k
                 /\ Len(g.delay) = k
                 /\ \A i \in 1..k :
                     /\ g.sine[i].out = [name |-> "beep", n |-> i, delayed |-> FALSE]
                     /\ g.sine[i].entry = arg.tones[i].sine_entry
                     /\ g.delay[i].in = g.sine[i].out
                     /\ g.delay[i].out = [name |-> "beep", n |-> i, delayed |-> TRUE]
                     /\ g.delay[i].entry = arg.tones[i].delay_entry
                     /\ g.mix[i] = g.delay[i].out
                 /\ Len(g.mix) = k
                 /\ Cardinality(DefinedLabels(g)) = 2 * k
                 /\ g.inputs = k + 1
                 /\ Len(g.weights) = k + 1
                 /\ g.weights[1] = arg.audio_weight
                 /\ \A i \in 2..(k + 1) : g.weights[i] = arg.sine_weight
                 /\ g.normalize = (IF arg.mix_normalize THEN "true" ELSE "false")
                 /\ g.dropout_transition = arg.dropout_transition

C18_Witness ==
    /\ res.f = "build_beep_filters"
    /\ arg.muted
    /\ Len(arg.tones) = MaxTones
    /\ arg.audio_weight # arg.sine_weight
    /\ arg.mix_normalize
    /\ res.args.inputs = MaxTones + 1

\* the tag fields of the file that hold the sentinel value and can be read
Marked(file) ==
    {i \in 1..Len(MUTAGEN_METADATA_TAGS) :
        /\ file.exists
        /\ file.easy
        /\ MUTAGEN_METADATA_TAGS[i] \notin file.bad
        /\ MUTAGEN_METADATA_TAG_VALUE \in file.tags[MUTAGEN_METADATA_TAGS[i]]}

\* C19: GetMonkeyplugTagged yields true exactly when the sentinel value is
\* among the values of one of the tag fields encodedby, comment; it looks the
\* fields up in that order and stops at the first that holds the value; a file
\* that does not exist or whose tags cannot be read yields false
C19_TaggedIffSentinel ==
    res.f = "GetMonkeyplugTagged" =>
        /\ ~res.out.raised
        /\ res.out.result <=> Marked(arg.file) # {}
        /\ \E n \in 0..Len(MUTAGEN_METADATA_TAGS) :
            /\ res.out.examined = SubSeq(MUTAGEN_METADATA_TAGS, 1, n)
            /\ Marked(arg.file) # {} => \A i \in Marked(arg.file) : n <= i

\* C20: EncodeCleanAudio is not aborted by a failure to read the tag of the
\* input or to write the tag of the output
C20_TagFailureNeverAborts ==
    lastOp.op = "EncodeCleanAudio" => lastOp.error # "MutagenError"


(***************************************************************************)
(* Properties of the runs of the plugger, checked under Spec               *)
(***************************************************************************)
\* the last call was an EncodeCleanAudio whose encoder failed
EncoderFailed ==
    /\ lastOp.op = "EncodeCleanAudio"
    /\ Has(events, "encode")
    /\ lastOp.error = "ValueError"

\* C21: when the encoder reports failure or produces no output file,
\* EncodeCleanAudio raises and no file is left at the output path
C21_NoPartialOutput == EncoderFailed => ~AudioFile(self.outputFileSpec).exists

\* the configuration names a missing swears file or an unsupported format
Invalid(cfg) ==
    \/ ~SwearsFile(cfg.iSwearsFileSpec).exists
    \/ cfg.oAudioFileFormat \notin AUDIO_DEFAULT_PARAMS_BY_FORMAT

Count(evs, e) == Cardinality({i \in 1..Len(evs) : evs[i] = e})

\* C23: one EncodeCleanAudio runs the recognizer at most once, writes the
\* transcript file at most once and runs the encoder at most once, also when
\* the encoder fails
C23_EffectsAtMostOnce ==
    lastOp.op = "EncodeCleanAudio" =>
        /\ Count(events, "recognize") <= 1
        /\ Count(events, "wav") <= 1
        /\ Count(events, "load") <= 1
        /\ Count(events, "savetranscript") <= 1
        /\ Count(events, "encode") <= 1
        /\ Count(events, "tagwrite") <= 1

C23_Witness ==
    /\ EncoderFailed
    /\ Count(events, "recognize") = 1
    /\ Count(events, "savetranscript") = 1
    /\ Count(events, "encode") = 1

\* C24: with the force flag set EncodeCleanAudio never copies: it checks no
\* tag, classifies a transcript, builds the lists and runs the encoder,
\* whether or not the input is tagged; it copies only when the flag is not set
\* and the input is tagged
C24_ForceRunsPipeline ==
    [][lastOp'.op = "EncodeCleanAudio" =>
        /\ self.forceDespiteTag =>
            /\ ~Has(events', "copy")
            /\ ~Has(events', "tagcheck")
            /\ lastOp'.kind \in {"recognize", "load"}
            /\ Classified(events') \/ ~lastOp'.ok
            /\ Classified(events') => Has(events', "synth") /\ Has(events', "encode")
        /\ Has(events', "copy") => ~self.forceDespiteTag /\ InputTagged]_vars

C24_Witness ==
    /\ lastOp.op = "EncodeCleanAudio"
    /\ lastOp.ok
    /\ self.forceDespiteTag
    /\ InputTagged
    /\ Has(events, "recognize")
    /\ Has(events, "encode")
    /\ AudioFile(self.outputFileSpec).clean

\* C25: a plugger that has just been made holds the normalized words of its
\* own swears file and no others, and no word recognized by another plugger
C25_InstanceIsolation ==
    (lastOp.op = "Construct" /\ lastOp.ok) =>
        /\ DOMAIN swearsMap = DOMAIN OwnDictionary
        /\ wordList = <<>>


(***************************************************************************)
(* Properties of the emitted times, checked under SpecFilters              *)
(***************************************************************************)
\* C26: no time emitted by CreateCleanMuteList is negative: no bound of a mute
\* or fade window, no fade start, no delay of a tone; nor is any emitted by
\* create_beep_entries
C26_TimesNotNegative ==
    /\ Built =>
        /\ \A i \in 1..Len(res.self.muteTimeList) :
            /\ res.self.muteTimeList[i].from >= 0
            /\ res.self.muteTimeList[i].to >= 0
            /\ res.self.muteTimeList[i].st >= 0
        /\ \A i \in 1..Len(res.self.beepDelayList) :
            /\ res.self.beepDelayList[i].adelay[1] >= 0
            /\ res.self.beepDelayList[i].adelay[2] >= 0
    /\ res.f = "create_beep_entries" =>
        /\ res.entries.mute_entry.from >= 0
        /\ res.entries.mute_entry.to >= 0
        /\ res.entries.delay_entry.adelay[1] >= 0

\* C27: the fade-in of the last naughty word, which peeks at the dummy word,
\* has a window that ends after it starts, whatever the paddings
C27_LastFadeInNotEmpty ==
    Built /\ ~arg.beep /\ Len(Flagged) > 0 =>
        LET last == res.self.muteTimeList[2 * Len(Flagged)]
        IN  /\ last.t = "in"
            /\ last.to > last.from


\* C28: CreateCleanMuteList is repeatable: when the same plugger is asked
\* again and the recognizer returns the same transcript, the mute list, the
\* sine list, the delay list and the naughty words (one dummy word, not two)
\* are what they were after the first call, and wordList holds only the
\* words of the latest recognition
C28_Repeatable ==
    [][(res.f = "CreateCleanMuteList" /\ res'.f = "CreateCleanMuteList")
        => /\ res'.self.muteTimeList = res.self.muteTimeList
           /\ res'.self.sineTimeList = res.self.sineTimeList
           /\ res'.self.beepDelayList = res.self.beepDelayList
           /\ res'.self.naughtyWordList = res.self.naughtyWordList
           /\ res'.audioArgs = res.audioArgs
           /\ res'.wordList = WhisperWords(arg.raw, DamnOnly)]_vars

C28_Witness ==
    /\ Built
    /\ res.calls = MaxCalls
    /\ Len(Flagged) = 2
    /\ Len(res.self.naughtyWordList) = 3
    /\ Len(res.self.muteTimeList) = 4
\* every b of the events comes after an a
Follows(evs, a, b) ==
    \A j \in 1..Len(evs) : evs[j] = b => \E i \in 1..(j - 1) : evs[i] = a

\* C29: SetMonkeyplugTag is called only after the encoder has succeeded and
\* the output file exists; a run whose encoder failed and a run that copied
\* the tagged input never call it; and no file but the output is written, so
\* the tags of the input stay as they were
C29_TagOnlyAfterEncode ==
    [][lastOp'.op = "EncodeCleanAudio"
        => /\ Has(events', "tagwrite")
                => /\ Follows(events', "encode", "tagwrite")
                   /\ lastOp'.error # "ValueError"
                   /\ audio'[self.outputFileSpec].exists
                   /\ audio'[self.outputFileSpec].clean
           /\ (lastOp'.error = "ValueError" \/ lastOp'.kind = "copy")
                => ~Has(events', "tagwrite")
           /\ (audio'[self.outputFileSpec].tags # NoTags /\ audio' # audio)
                => Has(events', "tagwrite") \/ lastOp'.kind = "copy"
           /\ \A path \in AudioPaths \ {self.outputFileSpec} :
                audio'[path] = audio[path]]_vars

C29_Witness ==
    /\ lastOp.op = "EncodeCleanAudio"
    /\ lastOp.ok
    /\ events[Len(events)] = "tagwrite"
    /\ audio[self.outputFileSpec].tags["encodedby"] = {MUTAGEN_METADATA_TAG_VALUE}
    /\ audio[self.inputFileSpec].tags = NoTags

(***************************************************************************)
(* Properties of successive runs, checked under SpecRuns                   *)
(***************************************************************************)
\* the output of a run whose encode and tag write both succeeded
CleanedAndTagged(file) ==
    /\ file.exists
    /\ file.clean
    /\ MUTAGEN_METADATA_TAG_VALUE \in file.tags[MUTAGEN_METADATA_TAGS[1]]

\* the run encoded, and SetMonkeyplugTag stored the tag in the output
EncodedAndTagged ==
    /\ self.alive
    /\ AudioFile(self.inputFileSpec).easy
    /\ \E texts \in Heard(self), wavOk \in WavOutcomes(self) :
           EncodeCleanAudio(texts, wavOk, "ok", "saved")
    /\ Has(events', "tagwrite")

\* C30: after a run whose encode and tag write both succeeded,
\* GetMonkeyplugTagged of the output is true; and a later run that takes that
\* output as its input with the force flag unset calls neither the
\* recognizer nor the encoder and leaves a byte-for-byte copy of its input
\* at its own output path
C30_SecondRunCopies ==
    [][/\ EncodedAndTagged
            => GetMonkeyplugTagged(audio'[self.outputFileSpec]).result
       /\ (/\ lastOp'.op = "EncodeCleanAudio"
           /\ self.inputFileSpec = OutputPath
           /\ CleanedAndTagged(audio[OutputPath])
           /\ ~self.forceDespiteTag)
            => /\ lastOp'.ok
               /\ events' = <<"tagcheck", "copy">>
               /\ audio'[self.outputFileSpec] = audio[self.inputFileSpec]
               /\ audio'[self.inputFileSpec] = audio[self.inputFileSpec]]_vars

C30_Witness ==
    /\ lastOp.op = "EncodeCleanAudio"
    /\ lastOp.kind = "copy"
    /\ self.inputFileSpec = OutputPath
    /\ self.outputFileSpec = SecondOutputPath
    /\ ~self.forceDespiteTag
    /\ CleanedAndTagged(audio[OutputPath])
    /\ audio[OutputPath].data = "song"
    /\ audio[SecondOutputPath] = audio[OutputPath]
====
